---- MODULE Spec2Model ----
(***************************************************************************)
(* A model of find_dead.py and video_host_utils.py: the crawl of an ICM    *)
(* user's comment pages, the classification of the video links found, the  *)
(* report (result.md) and ledger (checked_users.txt) files, and the sort   *)
(* and CSV export of the report.                                           *)
(*                                                                         *)
(* Text is modelled as a sequence of lexemes.  A lexeme is a run of        *)
(* characters the program handles as a unit: a user name, a host name, a   *)
(* video id, a movie path, a status text, a URL prefix, one decimal digit, *)
(* or a piece of markup ("##", "[", "]", "(", ")", "**", " ", "\n", ...).  *)
(* Names, ids and paths are drawn from sets whose members hold no markup   *)
(* character, so every literal of the program's regular expressions lines  *)
(* up with a lexeme boundary.                                              *)
(***************************************************************************)
EXTENDS Integers, Sequences, FiniteSets, TLC

VARIABLES
    report,     \* result.md on disk: a sequence of lexemes
    ledger,     \* checked_users.txt on disk: a sequence of lexemes
    csv,        \* result.csv on disk: its rows, the header row first
    exists,     \* the names of the files that exist
    work,       \* sort / convert: the blocks or rows not yet written
    cmd,        \* the command of the running (or last) process
    pc,         \* position of the process
    exit,       \* how the last process ended
    users,      \* write_dead_by_users: the list being looped over
    idx,        \* write_dead_by_users: index of the current user
    ignore,     \* write_dead_by_users: ignore_blacklist
    first,      \* number_of_pages: its response, until another page is fetched
    to,         \* write_dead_in_profile: last page to fetch
    page,       \* comments_in_profile: the last page fetched
    pending,    \* links of the fetched page not yet classified
    dead,       \* dead_in_comments: entries yielded so far
    seen,       \* observation: the links classified in this audit, in
                \* order, each with the status get_status returned
    out,        \* buffered text of the open report handle
    wrote,      \* number of entries of the current block already written
    fetches,    \* page fetches made for the current user
    start,      \* observation: the files and the argument at process start
    fetched,    \* observation: how the fetches of the last audit went
    hist,       \* observation: audits, returns and ledger appends of the run
    resp,       \* classifier harness: the API response
    result      \* classifier harness: the status returned for resp

vars == <<report, ledger, csv, exists, work, cmd, pc, exit, users, idx, ignore, first, to,
          page, pending, dead, seen, out, wrote, fetches, start, fetched,
          hist, resp, result>>

-----------------------------------------------------------------------------
(* Bounds of the model *)

MaxBatch == 2       \* longest list of users given to write_dead_by_users
MaxLedger == 1      \* most lines in the ledger before the first process
MaxPages == 2       \* largest page number a paginator shows
MaxComments == 1    \* most comments on one fetched page
MaxBlocks == 2      \* most blocks in a report handed to sort / convert

(* Program constants *)

RegionTotal == 249  \* all officially assigned ISO 3166-1 alpha-2 codes
HttpOk == 200       \* requests.codes.ok

None == "None"      \* Python's None; str(None) in an f-string

-----------------------------------------------------------------------------
(* video_host_utils.py *)

Hosts == <<"youtube", "vimeo", "dailymotion", "googlevideo">>

HostUrl(host) ==
    CASE host = "youtube" -> "https://www.youtube.com/watch?v="
      [] host = "vimeo" -> "https://vimeo.com/"
      [] host = "dailymotion" -> "https://www.dailymotion.com/video/"
      [] host = "googlevideo" -> "http://video.google.com/videoplay?docid="

\* get_video_status: a HEAD request; any status but 200 is 'not found'.
get_video_status(code) == IF code = HttpOk THEN "ok" ELSE "not found"

\* List lengths the API response may carry for allowed / blocked.
ListLens == {0, 1, RegionTotal - 1, RegionTotal, RegionTotal + 1}

Absent == -1     \* the key is not in the dict

\* A parsed JSON response of the videos endpoint.  items is the number of
\* items; lists are kept by their length, all the code reads of them.
YtResponses ==
    [items : {0}, privacy : {"public"}, upload : {"processed"},
     details : {FALSE}, region : {FALSE}, allowed : {Absent}, blocked : {Absent}]
    \cup
    [items : {1}, privacy : {"private", "public", "unlisted"},
     upload : {"processed", "deleted", "failed", "rejected", "uploaded"},
     details : {FALSE}, region : {FALSE}, allowed : {Absent}, blocked : {Absent}]
    \cup
    [items : {1}, privacy : {"private", "public", "unlisted"},
     upload : {"processed", "deleted", "failed", "rejected", "uploaded"},
     details : {TRUE}, region : {FALSE}, allowed : {Absent}, blocked : {Absent}]
    \cup
    [items : {1}, privacy : {"private", "public", "unlisted"},
     upload : {"processed", "deleted", "failed", "rejected", "uploaded"},
     details : {TRUE}, region : {TRUE},
     allowed : {Absent} \cup ListLens, blocked : {Absent} \cup ListLens]

get_yt_video_status_RegionFirst(r) ==
    IF r.items = 0 THEN "not found"
    ELSE IF r.details /\ r.region /\ r.allowed # Absent
         THEN (IF r.allowed = 0 THEN "blocked everywhere" ELSE "ok")
    ELSE IF r.details /\ r.region /\ r.blocked # Absent
         THEN (IF r.blocked = RegionTotal THEN "blocked everywhere" ELSE "ok")
    ELSE IF r.privacy = "private" THEN "private"
    ELSE IF r.upload # "processed" THEN "removed"
    ELSE IF ~r.details THEN "ok"
    ELSE IF ~r.region THEN "ok"
    ELSE "RuntimeError"

get_yt_video_status_OffByOne(r) ==
    IF r.items = 0 THEN "not found"
    ELSE IF r.privacy = "private" THEN "private"
    ELSE IF r.upload # "processed" THEN "removed"
    ELSE IF ~r.details THEN "ok"
    ELSE IF ~r.region THEN "ok"
    ELSE IF r.allowed # Absent
         THEN (IF r.allowed = 0 THEN "blocked everywhere" ELSE "ok")
    ELSE IF r.blocked # Absent
         THEN (IF r.blocked >= RegionTotal THEN "blocked everywhere" ELSE "ok")
    ELSE "RuntimeError"

\* get_yt_video_status on the parsed response; "RuntimeError" stands for
\* the raise on an unexpected response.
get_yt_video_status(r) ==
    IF r.items = 0 THEN "not found"
    ELSE IF r.privacy = "private" THEN "private"
    ELSE IF r.upload # "processed" THEN "removed"
    ELSE IF ~r.details THEN "ok"
    ELSE IF ~r.region THEN "ok"
    ELSE IF r.allowed # Absent
         THEN (IF r.allowed = 0 THEN "blocked everywhere" ELSE "ok")
    ELSE IF r.blocked # Absent
         THEN (IF r.blocked = RegionTotal THEN "blocked everywhere" ELSE "ok")
    ELSE "RuntimeError"

-----------------------------------------------------------------------------
(* Text: lexemes, decimal numerals, order *)

\* Every lexeme of the model in code-point order of its first differing
\* character: the order Python's str comparison gives.  No lexeme that can
\* meet another at the same place of two report blocks is a prefix of it.
Collation ==
    <<"\n", " ", "##", "(", ")", "**", "-", "/movies/alien/",
      "/movies/brazil/", "0", "1", "2", "3", "4", "5", "6", "7", "76979871",
      "8", "9", ":", "?user=", "None", "[", "]", "ann", "blocked everywhere",
      "bo b", "bo+b", "comments/", "dQw4w9WgXcQ", "dailymotion",
      "googlevideo", "http://video.google.com/videoplay?docid=",
      "https://vimeo.com/", "https://www.dailymotion.com/video/",
      "https://www.icheckmovies.com",
      "https://www.icheckmovies.com/profiles/comments/",
      "https://www.youtube.com/watch?v=", "on", "private", "removed",
      "vimeo", "youtube">>

Ord(lexeme) == CHOOSE i \in 1..Len(Collation) : Collation[i] = lexeme

\* the first place where texts a and b differ, from place i on; 0 when
\* one is a prefix of the other
RECURSIVE FirstDiff(_, _, _)
FirstDiff(a, b, i) ==
    IF i > Len(a) \/ i > Len(b) THEN 0
    ELSE IF a[i] # b[i] THEN i
    ELSE FirstDiff(a, b, i + 1)

\* Python's < on str, on texts given as lexemes: lexicographic, a proper
\* prefix first.
StrLess(a, b) ==
    LET i == FirstDiff(a, b, 1)
    IN  IF i = 0 THEN Len(a) < Len(b) ELSE Ord(a[i]) < Ord(b[i])

DigitLex == <<"0", "1", "2", "3", "4", "5", "6", "7", "8", "9">>

IsDigit(lexeme) == \E k \in 1..10 : DigitLex[k] = lexeme

DigitVal(lexeme) == (CHOOSE k \in 1..10 : DigitLex[k] = lexeme) - 1

\* str(n) of a non-negative int, as in f'({len(dead_links)})'
RECURSIVE Str(_)
Str(n) ==
    IF n < 10 THEN <<DigitLex[n + 1]>>
    ELSE Str(n \div 10) \o <<DigitLex[(n % 10) + 1]>>

\* int(s) of a run of decimal digits
RECURSIVE ParseInt(_)
ParseInt(ds) ==
    IF Len(ds) = 0 THEN 0
    ELSE 10 * ParseInt(SubSeq(ds, 1, Len(ds) - 1)) + DigitVal(ds[Len(ds)])

\* \w+ on one lexeme: letters, digits and underscore only
IsWord(lexeme) ==
    lexeme \in {"youtube", "vimeo", "dailymotion", "googlevideo", "ann",
                "dQw4w9WgXcQ", "76979871", "on", "private", "removed",
                "None"}
    \/ IsDigit(lexeme)

IsSpace(lexeme) == lexeme \in {" ", "\n"}

\* str.strip(): leading and trailing whitespace removed
RECURSIVE Strip(_)
Strip(s) ==
    IF Len(s) = 0 THEN s
    ELSE IF IsSpace(s[1]) THEN Strip(Tail(s))
    ELSE IF IsSpace(s[Len(s)]) THEN Strip(SubSeq(s, 1, Len(s) - 1))
    ELSE s

\* str.split(sep) for a one-lexeme separator: the parts between the
\* separators, empty parts kept
RECURSIVE Split(_, _)
Split(s, sep) ==
    LET hits == {i \in 1..Len(s) : s[i] = sep}
    IN  IF hits = {} THEN <<s>>
        ELSE LET i == CHOOSE j \in hits : \A k \in hits : j <= k
             IN  <<SubSeq(s, 1, i - 1)>> \o Split(SubSeq(s, i + 1, Len(s)), sep)

\* the lines of a text file as iteration over the file yields them, each
\* with its "\n" (the last one possibly without)
RECURSIVE Lines(_)
Lines(s) ==
    LET hits == {i \in 1..Len(s) : s[i] = "\n"}
    IN  IF Len(s) = 0 THEN <<>>
        ELSE IF hits = {} THEN <<s>>
        ELSE LET i == CHOOSE j \in hits : \A k \in hits : j <= k
             IN  <<SubSeq(s, 1, i)>> \o Lines(SubSeq(s, i + 1, Len(s)))

RECURSIVE Flatten(_)
Flatten(ss) == IF Len(ss) = 0 THEN <<>> ELSE Head(ss) \o Flatten(Tail(ss))

-----------------------------------------------------------------------------
(* find_dead.py: the report text *)

URL_USER_COMMENTS == "https://www.icheckmovies.com/profiles/comments/"

UserNames == {"ann", "bo b"}

\* urllib.parse.quote_plus on the user names of the model
quote_plus(user) == IF user = "bo b" THEN "bo+b" ELSE user

\* The header line write_dead_in_profile writes for n dead links.
Header(user, n) ==
    <<"##", " ", "[", user, "]", "(", URL_USER_COMMENTS, "?user=",
      quote_plus(user), ")", " ", "(">> \o Str(n) \o <<")", "\n">>

\* The bullet line of one dead link (movie, host, vid, status).
EntryLine(e) ==
    <<"-", " ", "[", e.host, ":", e.vid, "]", "(", HostUrl(e.host), e.vid,
      ")", " ">>
    \o (IF e.status # None THEN <<"**", "(", e.status, ")", "**", " ">>
        ELSE <<>>)
    \o <<"on", " ", "[", e.movie, "]", "(", "https://www.icheckmovies.com",
         e.movie, "comments/", ")", "\n">>

\* ['##' + s for s in f.read().split('##') if s]
Blocks(text) ==
    LET parts == Split(text, "##")
        kept == SelectSeq(parts, LAMBDA q : q # <<>>)
    IN  [i \in 1..Len(kept) |-> <<"##">> \o kept[i]]

NoMatch == <<"NoMatch">>

\* re.search(r' \((\d+)\)\n', b).group(1): the digits of the leftmost
\* match, or NoMatch when search returns None.
CountDigits(b) ==
    LET ends(i) == {j \in (i + 3)..(Len(b) - 1) :
                       /\ \A k \in (i + 2)..(j - 1) : IsDigit(b[k])
                       /\ b[j] = ")"
                       /\ b[j + 1] = "\n"}
        hits == {i \in 1..Len(b) :
                    /\ i + 1 <= Len(b)
                    /\ b[i] = " "
                    /\ b[i + 1] = "("
                    /\ ends(i) # {}}
    IN  IF hits = {} THEN NoMatch
        ELSE LET i == CHOOSE h \in hits : \A k \in hits : h <= k
                 j == CHOOSE e \in ends(i) : TRUE
             IN  SubSeq(b, i + 2, j - 1)

KeyLess_CountOnly(x, y) == x.n > y.n

\* key=lambda t: (-t[1], t[0]) on (block, count) pairs
KeyLess(x, y) == x.n > y.n \/ (x.n = y.n /\ StrLess(x.b, y.b))

\* x put into the sorted list before the first element it is less than
Insert(sorted, x) ==
    LET after == {i \in 1..Len(sorted) : KeyLess(x, sorted[i])}
        at == IF after = {} THEN Len(sorted) + 1
              ELSE CHOOSE i \in after : \A k \in after : i <= k
    IN  SubSeq(sorted, 1, at - 1) \o <<x>> \o SubSeq(sorted, at, Len(sorted))

\* list.sort: stable, so the result is that of an insertion sort
RECURSIVE SortPairs(_)
SortPairs(ps) ==
    IF Len(ps) = 0 THEN <<>>
    ELSE Insert(SortPairs(SubSeq(ps, 1, Len(ps) - 1)), ps[Len(ps)])

\* (block, count) for every block: int(re.search(...).group(1))
blocks_with_lens(blocks) ==
    [i \in 1..Len(blocks) |->
        [b |-> blocks[i], n |-> ParseInt(CountDigits(blocks[i]))]]

\* the text writelines writes: the blocks of the pairs, in order
JoinBlocks(pairs) == Flatten([i \in 1..Len(pairs) |-> pairs[i].b])

\* what the sorted pairs give: the blocks in their order, and the text
\* they make
Sorted(pairs) ==
    [ok |-> TRUE, err |-> "", text |-> JoinBlocks(pairs),
     blocks |-> [i \in 1..Len(pairs) |-> pairs[i].b]]

\* sort_output_file with the blocks read
SortBlocks(text, blocks) ==
    IF \E i \in 1..Len(blocks) : CountDigits(blocks[i]) = NoMatch
    THEN [ok |-> FALSE, err |-> "AttributeError", text |-> text,
          blocks |-> <<>>]
    ELSE Sorted(SortPairs(blocks_with_lens(blocks)))

\* sort_output_file on the report text: the rewritten text, or the
\* exception that ends it before the file is opened for writing.
sort_output_file(text) == SortBlocks(text, Blocks(text))

\* what a match object's use stands for when match returned None
NoGroups == [matched |-> FALSE]

\* re_header.match(first_line): the groups author, author_url, count, or
\* NoGroups when match returns None.
\*   ^## \[(?P<author>.+?)]\((?P<author_url>.+?)\) \((?P<count>\d+)\)
re_header(l) ==
    LET L == Len(l)
        Ms(k) == {m \in (k + 4)..L :
                     /\ \A d \in (k + 3)..(m - 1) : IsDigit(l[d])
                     /\ l[m] = ")"}
        Ks(i) == {k \in (i + 3)..(L - 4) :
                     /\ l[k] = ")"
                     /\ l[k + 1] = " "
                     /\ l[k + 2] = "("
                     /\ Ms(k) # {}}
        Is == {i \in 5..(L - 1) : l[i] = "]" /\ l[i + 1] = "(" /\ Ks(i) # {}}
    IN  IF L < 3 \/ l[1] # "##" \/ l[2] # " " \/ l[3] # "[" \/ Is = {}
        THEN NoGroups
        ELSE LET i == CHOOSE x \in Is : \A y \in Is : x <= y
                 k == CHOOSE x \in Ks(i) : \A y \in Ks(i) : x <= y
                 m == CHOOSE x \in Ms(k) : TRUE
             IN  [matched |-> TRUE,
                  author |-> SubSeq(l, 4, i - 1),
                  author_url |-> SubSeq(l, i + 2, k - 1),
                  count |-> SubSeq(l, k + 3, m - 1)]

\* re_row.match(line): the groups host, video_url, blocked, comment_url,
\* or NoGroups when match returns None.  A group that took no part in the
\* match (None) is the empty text.
\*   ^-\s\[(?P<host>\w+):.+?]\((?P<video_url>.+?)\)
\*   (?:\s\*\*\((?P<blocked>blocked\severywhere)\)\*\*)?\s
\*   on.+\((?P<comment_url>.+)\)$
re_row(l) ==
    LET L == Len(l)
        Hs == {h \in 5..L : l[h] = ":" /\ \A w \in 4..(h - 1) : IsWord(l[w])}
        Ps(n) == {q \in (n + 3)..(L - 2) : l[q] = "("}
        TailOk(n) ==
            /\ n + 1 <= L
            /\ IsSpace(l[n])
            /\ l[n + 1] = "on"
            /\ l[L] = ")"
            /\ Ps(n) # {}
        OptOk(k) ==
            /\ k + 6 <= L
            /\ IsSpace(l[k + 1])
            /\ l[k + 2] = "**"
            /\ l[k + 3] = "("
            /\ l[k + 4] = "blocked everywhere"
            /\ l[k + 5] = ")"
            /\ l[k + 6] = "**"
            /\ TailOk(k + 7)
        Ks(i) == {k \in (i + 3)..L : l[k] = ")" /\ (OptOk(k) \/ TailOk(k + 1))}
        Is(h) == {i \in (h + 2)..(L - 1) :
                     l[i] = "]" /\ l[i + 1] = "(" /\ Ks(i) # {}}
    IN  IF L < 4 \/ l[1] # "-" \/ ~IsSpace(l[2]) \/ l[3] # "[" \/ Hs = {}
        THEN NoGroups
        ELSE LET h == CHOOSE x \in Hs : TRUE
             IN  IF Is(h) = {} THEN NoGroups
                 ELSE LET i == CHOOSE x \in Is(h) : \A y \in Is(h) : x <= y
                          k == CHOOSE x \in Ks(i) : \A y \in Ks(i) : x <= y
                          n == IF OptOk(k) THEN k + 7 ELSE k + 1
                          q == CHOOSE x \in Ps(n) : \A y \in Ps(n) : x >= y
                      IN  [matched |-> TRUE,
                           host |-> SubSeq(l, 4, h - 1),
                           video_url |-> SubSeq(l, i + 2, k - 1),
                           blocked |-> IF OptOk(k) THEN <<l[k + 4]>> ELSE <<>>,
                           comment_url |-> SubSeq(l, q + 1, L - 1)]

\* The rows of one block, or the exception its parsing raises.
BlockRows(block) ==
    LET ls == Split(Strip(block), "\n")
        author == re_header(ls[1])
        rows == [i \in 1..(Len(ls) - 1) |-> re_row(ls[i + 1])]
    IN  IF ~author.matched THEN [ok |-> FALSE, err |-> "AttributeError"]
        ELSE IF \E i \in 1..Len(rows) : ~rows[i].matched
             THEN [ok |-> FALSE, err |-> "AttributeError"]
        ELSE IF Len(rows) # ParseInt(author.count)
             THEN [ok |-> FALSE, err |-> "AssertionError"]
        ELSE [ok |-> TRUE,
              rows |-> [i \in 1..Len(rows) |->
                           [author |-> author.author,
                            comment_url |-> rows[i].comment_url,
                            host |-> rows[i].host,
                            video_url |-> rows[i].video_url,
                            blocked |-> rows[i].blocked]]]

\* convert_output_file_to_csv on the report text: the rows written to the
\* .csv file, or the first exception, raised before that file is opened.
RECURSIVE ConvertBlocks(_, _)
ConvertBlocks(blocks, full_rows) ==
    IF Len(blocks) = 0 THEN [ok |-> TRUE, err |-> "", rows |-> full_rows]
    ELSE LET r == BlockRows(Head(blocks))
         IN  IF ~r.ok THEN [ok |-> FALSE, err |-> r.err, rows |-> <<>>]
             ELSE ConvertBlocks(Tail(blocks), full_rows \o r.rows)

convert_output_file_to_csv(text) == ConvertBlocks(Blocks(text), <<>>)

-----------------------------------------------------------------------------
(* find_dead.py: the crawl *)

Movies == {"/movies/alien/", "/movies/brazil/"}

NoIds == [h \in {"youtube", "vimeo", "dailymotion", "googlevideo"} |-> <<>>]

\* The comments a page may show: for each, the href of its movie link (None
\* when it has none), the ids each host's pattern extracts from its text,
\* and whether it is the "please log in" placeholder (a highlightBlock
\* child).
CommentPool ==
    { [movie |-> "/movies/alien/", ids |-> NoIds, warning |-> FALSE],
      [movie |-> None, ids |-> NoIds, warning |-> TRUE],
      [movie |-> "/movies/alien/",
       ids |-> [NoIds EXCEPT !["youtube"] = <<"dQw4w9WgXcQ">>],
       warning |-> FALSE],
      [movie |-> None,
       ids |-> [NoIds EXCEPT !["vimeo"] = <<"76979871">>],
       warning |-> FALSE] }

RECURSIVE SeqsUpTo(_, _)
SeqsUpTo(S, n) ==
    IF n = 0 THEN {<<>>}
    ELSE LET shorter == SeqsUpTo(S, n - 1)
         IN  shorter \cup {Append(q, x) : q \in shorter, x \in S}

\* Responses to requests.get(URL_USER_COMMENTS, {'user': user}): the status
\* code, whether the final URL holds '/login/', the text of the last
\* paginator link (0: no paginator), the number of .comment elements.
FirstPageResponses ==
    [code : {HttpOk, 500}, login : BOOLEAN, last : 0..MaxPages,
     comments : 0..MaxComments]

\* Responses to the fetch of one page of comments.
PageResponses ==
    [code : {HttpOk, 500}, comments : SeqsUpTo(CommentPool, MaxComments)]

number_of_pages_IgnoreLogin(r) ==
    IF r.code # HttpOk THEN 0
    ELSE IF r.last > 0 THEN r.last
    ELSE IF r.comments = 0 THEN 0
    ELSE 1

number_of_pages(r) ==
    IF r.code # HttpOk THEN 0
    ELSE IF r.login THEN 0
    ELSE IF r.last > 0 THEN r.last
    ELSE IF r.comments = 0 THEN 0
    ELSE 1

\* parse_comment: (movie, host, vid) for every id of every host, in the
\* order of VIDEO_HOSTS
parse_comment(c) ==
    Flatten([h \in 1..Len(Hosts) |->
                [i \in 1..Len(c.ids[Hosts[h]]) |->
                    [movie |-> c.movie, host |-> Hosts[h],
                     vid |-> c.ids[Hosts[h]][i]]]])

comments_in_profile_page_AnyStatus(r) ==
    SelectSeq(r.comments, LAMBDA c : ~c.warning)

\* comments_in_profile_page: no comments on a non-200 response, else the
\* comments without the login warnings
comments_in_profile_page(r) ==
    IF r.code # HttpOk THEN <<>>
    ELSE SelectSeq(r.comments, LAMBDA c : ~c.warning)

\* the links of one page, as dead_in_comments chains them
PageLinks(r) ==
    LET cs == comments_in_profile_page(r)
    IN  Flatten([i \in 1..Len(cs) |-> parse_comment(cs[i])])

\* The API responses drawn in the crawl: a sample of YtResponses with a
\* response for each status get_yt_video_status returns.
CrawlYtResponses ==
    {r \in YtResponses :
        /\ r.privacy \in {"private", "public"}
        /\ r.upload \in {"processed", "deleted"}
        /\ r.details => (r.region /\ r.allowed = 0)}

\* The statuses get_status may return for a link of this host without
\* raising.
Statuses(host) ==
    IF host = "youtube"
    THEN {get_yt_video_status(r) : r \in CrawlYtResponses} \ {"RuntimeError"}
    ELSE {get_video_status(c) : c \in {HttpOk, 404}}

\* dead_in_comments on one classified link: nothing for 'ok', else the
\* entry, its status None for 'not found'
DeadEntry_KeepOk(link, status) ==
    <<[movie |-> link.movie, host |-> link.host, vid |-> link.vid,
       status |-> IF status = "not found" THEN None ELSE status]>>

DeadEntry(link, status) ==
    IF status = "ok" THEN <<>>
    ELSE <<[movie |-> link.movie, host |-> link.host, vid |-> link.vid,
            status |-> IF status = "not found" THEN None ELSE status]>>

\* filter_by_blacklist: the users not among the stripped non-empty lines
\* of the ledger
filter_by_blacklist_None(us, text) == us

filter_by_blacklist(us, text) ==
    LET ls == Lines(text)
        checked_users == {Strip(ls[i]) : i \in 1..Len(ls)} \ {<<>>}
    IN  SelectSeq(us, LAMBDA u : <<u>> \notin checked_users)

-----------------------------------------------------------------------------
(* The processes: one command of __main__ at a time *)

\* The files of the script's directory.  PATH_CSV is
\* Path(filename).with_suffix('.csv').
PATH_OUT == "result.md"

PATH_CHECKED_USERS == "checked_users.txt"

PATH_CSV == "result.csv"

NoFirst == [code |-> 0, login |-> FALSE, last |-> 0, comments |-> 0]

NoYt == [items |-> 0, privacy |-> "", upload |-> "", details |-> FALSE,
         region |-> FALSE, allowed |-> Absent, blocked |-> Absent]

\* A block an earlier process left in the report.
EarlierBlock ==
    Header("ann", 1)
    \o EntryLine([movie |-> "/movies/brazil/", host |-> "vimeo",
                  vid |-> "76979871", status |-> None])

LedgerLine(user) == <<user, "\n">>

InitLedgers ==
    {Flatten([i \in 1..Len(q) |-> LedgerLine(q[i])]) :
        q \in SeqsUpTo(UserNames, MaxLedger)}

Init ==
    /\ report \in {<<>>, EarlierBlock}
    /\ ledger \in InitLedgers
    /\ csv = <<>>
    /\ exists \in {fs \in SUBSET {PATH_OUT, PATH_CHECKED_USERS} :
                      /\ report # <<>> => PATH_OUT \in fs
                      /\ ledger # <<>> => PATH_CHECKED_USERS \in fs}
    /\ work = <<>>
    /\ cmd = "none"
    /\ pc = "idle"
    /\ exit = "none"
    /\ users = <<>>
    /\ idx = 1
    /\ ignore = FALSE
    /\ first = NoFirst
    /\ to = 0
    /\ page = 0
    /\ pending = <<>>
    /\ dead = <<>>
    /\ seen = <<>>
    /\ out = <<>>
    /\ wrote = 0
    /\ fetches = 0
    /\ start = [report |-> report, ledger |-> ledger, users |-> <<>>,
                 files |-> exists]
    /\ fetched = "none"
    /\ hist = <<>>
    /\ resp = NoYt
    /\ result = ""

Event(ev, user, entries) == [ev |-> ev, user |-> user, dead |-> entries]

auditVars == <<first, to, page, pending, dead, seen, out, wrote, fetches>>

\* the locals of write_dead_in_profile are gone when it is left
Forget ==
    /\ first' = NoFirst
    /\ to' = 0
    /\ page' = 0
    /\ pending' = <<>>
    /\ dead' = <<>>
    /\ seen' = <<>>
    /\ wrote' = 0
    /\ fetches' = 0

\* __main__ with a username: write_dead_in_profile(user=args.username)
StartSingle(u) ==
    /\ pc = "idle"
    /\ cmd' = "single"
    /\ users' = <<u>>
    /\ idx' = 1
    /\ ignore' = TRUE
    /\ pc' = "loop"
    /\ exit' = "running"
    /\ start' = [report |-> report, ledger |-> ledger, users |-> <<u>>,
                 files |-> exists]
    /\ fetched' = "none"
    /\ hist' = <<>>
    /\ UNCHANGED <<report, ledger, csv, auditVars, resp, result,
                   exists, work>>

\* __main__ with --top: the process starts to build the list of users
\* with top_users
StartBatch(ign) ==
    /\ pc = "idle"
    /\ cmd' = "batch"
    /\ users' = <<>>
    /\ idx' = 1
    /\ ignore' = ign
    /\ pc' = "top"
    /\ exit' = "running"
    /\ start' = [report |-> report, ledger |-> ledger, users |-> <<>>,
                 files |-> exists]
    /\ fetched' = "none"
    /\ hist' = <<>>
    /\ UNCHANGED <<report, ledger, csv, auditVars, resp, result, exists,
                   work>>

\* list(top_users(...)) is done: write_dead_by_users is called with the
\* users of the chart pages
TopUsers(us) ==
    /\ pc = "top"
    /\ users' = us
    /\ start' = [start EXCEPT !.users = us]
    /\ pc' = IF ignore THEN "open" ELSE "filter"
    /\ UNCHANGED <<report, ledger, csv, cmd, exit, idx, ignore, auditVars,
                   fetched, hist, resp, result, exists, work>>

\* a chart page answers with an error status and top_users raises HTTPError
\* (raise_for_status); __main__ does not catch it
TopUsersRaises ==
    /\ pc = "top"
    /\ pc' = "idle"
    /\ exit' = "error"
    /\ UNCHANGED <<report, ledger, csv, cmd, users, idx, ignore, auditVars,
                   start, fetched, hist, resp, result, exists, work>>

\* write_dead_by_users without ignore_blacklist:
\* users = list(filter_by_blacklist(users)).  The ledger is opened for
\* reading: FileNotFoundError when it is not there, which __main__ does not
\* catch.
FilterUsers ==
    /\ pc = "filter"
    /\ IF PATH_CHECKED_USERS \notin exists
       THEN /\ users' = users
            /\ pc' = "idle"
            /\ exit' = "error"
       ELSE /\ users' = filter_by_blacklist(users, ledger)
            /\ pc' = "open"
            /\ exit' = exit
    /\ UNCHANGED <<report, ledger, csv, cmd, idx, ignore, auditVars, start,
                   fetched, hist, resp, result, exists, work>>

\* write_dead_by_users: the ledger is opened for appending, which creates
\* the file
OpenLedger ==
    /\ pc = "open"
    /\ exists' = exists \cup {PATH_CHECKED_USERS}
    /\ pc' = "loop"
    /\ UNCHANGED <<report, ledger, csv, cmd, exit, users, idx, ignore,
                   auditVars, start, fetched, hist, resp, result, work>>

\* write_dead_in_profile, its first lines: number_of_pages fetches the
\* first page
AuditStart(r) ==
    /\ pc = "loop"
    /\ idx <= Len(users)
    /\ first' = r
    /\ to' = number_of_pages(r)
    /\ page' = 0
    /\ pending' = <<>>
    /\ dead' = <<>>
    /\ seen' = <<>>
    /\ fetches' = 1
    /\ pc' = "crawl"
    /\ hist' = Append(hist, Event("audit", users[idx], <<>>))
    /\ fetched' = IF r.code # HttpOk THEN "failed" ELSE "none"
    /\ UNCHANGED <<report, ledger, csv, cmd, exit, users, idx, ignore, out,
                   wrote, start, resp, result,
                   exists, work>>

\* how the fetches of an audit went, after one more page with this status
\* code: "failed" when every response so far that was not 200, and no page
\* gave comments; "mixed" when some page failed and some page gave comments
PagesSoFar(was, code) ==
    IF code = HttpOk
    THEN (IF was \in {"failed", "mixed"} THEN "mixed" ELSE "ok")
    ELSE (IF was \in {"ok", "mixed"} THEN "mixed" ELSE "failed")

\* comments_in_profile: the next page is fetched when the comments of the
\* page before are used up
FetchPage(r) ==
    /\ pc = "crawl"
    /\ pending = <<>>
    /\ page < to
    /\ page' = page + 1
    /\ fetches' = fetches + 1
    /\ pending' = PageLinks(r)
    /\ first' = NoFirst
    /\ fetched' = PagesSoFar(fetched, r.code)
    /\ UNCHANGED <<report, ledger, csv, cmd, pc, exit, users, idx, ignore,
                   to, dead, seen, out, wrote, start, hist, resp, result,
                   exists, work>>

\* dead_in_comments: one link classified, its status returned by get_status
Classify(status) ==
    /\ pc = "crawl"
    /\ pending # <<>>
    /\ status \in Statuses(Head(pending).host)
    /\ dead' = dead \o DeadEntry(Head(pending), status)
    /\ seen' = Append(seen, [link |-> Head(pending), status |-> status])
    /\ pending' = Tail(pending)
    /\ UNCHANGED <<report, ledger, csv, cmd, pc, exit, users, idx, ignore,
                   first, to, page, out, wrote, fetches, start, fetched, hist,
                   resp, result,
                   exists, work>>

\* what an exception or KeyboardInterrupt leaves behind: the with block
\* closes the open handle (of the report, or of the .csv file during an
\* export), which writes its buffer out
Unwind(how) ==
    /\ report' = IF pc = "export" THEN report ELSE report \o out
    /\ csv' = IF pc = "export" THEN csv \o out ELSE csv
    /\ out' = <<>>
    /\ work' = <<>>
    /\ pc' = "idle"
    /\ exit' = how
    /\ Forget
    /\ UNCHANGED <<ledger, cmd, users, idx, ignore, start, fetched, hist,
                   resp, result, exists>>

\* get_status raises: RuntimeError on an unexpected API response, or
\* HTTPError from raise_for_status; __main__ does not catch it
ClassifyRaises ==
    /\ pc = "crawl"
    /\ pending # <<>>
    /\ Head(pending).host = "youtube"
    /\ Unwind("error")

\* write_dead_in_profile returns without opening the report
NoDeadLinks ==
    /\ pc = "crawl"
    /\ pending = <<>>
    /\ page >= to
    /\ dead = <<>>
    /\ pc' = "returned"
    /\ hist' = Append(hist, Event("returned", users[idx], dead))
    /\ Forget
    /\ UNCHANGED <<report, ledger, csv, cmd, exit, users, idx, ignore, out, start, fetched, resp, result,
                   exists, work>>

\* the report opened whatever dead_links holds
OpenReport_Always ==
    /\ pc = "crawl"
    /\ pending = <<>>
    /\ page >= to
    /\ exists' = exists \cup {PATH_OUT}
    /\ out' = <<>>
    /\ pc' = "opened"
    /\ UNCHANGED <<report, ledger, csv, cmd, exit, users, idx, ignore, first,
                   to, page, pending, dead, seen, wrote, fetches, start,
                   fetched, hist, resp, result, work>>

\* dead_links is not empty: the report is opened for appending, which
\* creates the file
OpenReport ==
    /\ pc = "crawl"
    /\ pending = <<>>
    /\ page >= to
    /\ dead # <<>>
    /\ exists' = exists \cup {PATH_OUT}
    /\ out' = <<>>
    /\ pc' = "opened"
    /\ UNCHANGED <<report, ledger, csv, cmd, exit, users, idx, ignore, first,
                   to, page, pending, dead, seen, wrote, fetches, start,
                   fetched, hist, resp, result, work>>

\* the f.write of the header line
WriteHeader ==
    /\ pc = "opened"
    /\ out' = Header(users[idx], Len(dead))
    /\ wrote' = 0
    /\ pc' = "write"
    /\ UNCHANGED <<report, ledger, csv, cmd, exit, users, idx, ignore, first,
                   to, page, pending, dead, seen, fetches, start, fetched,
                   hist, resp, result, exists, work>>

\* one f.write of the loop over dead_links
WriteEntry ==
    /\ pc = "write"
    /\ wrote < Len(dead)
    /\ out' = out \o EntryLine(dead[wrote + 1])
    /\ wrote' = wrote + 1
    /\ UNCHANGED <<report, ledger, csv, cmd, pc, exit, users, idx, ignore,
                   first, to, page, pending, dead, seen, fetches, start, fetched,
                   hist, resp, result,
                   exists, work>>

CloseReport_NoFlush ==
    /\ pc = "write"
    /\ wrote = Len(dead)
    /\ pc' = "returned"
    /\ hist' = Append(hist, Event("returned", users[idx], dead))
    /\ Forget
    /\ UNCHANGED <<report, out, ledger, csv, cmd, exit, users, idx, ignore,
                   start, fetched, resp, result,
                   exists, work>>

\* the with block ends: the handle is closed, write_dead_in_profile returns
CloseReport ==
    /\ pc = "write"
    /\ wrote = Len(dead)
    /\ report' = report \o out
    /\ out' = <<>>
    /\ pc' = "returned"
    /\ hist' = Append(hist, Event("returned", users[idx], dead))
    /\ Forget
    /\ UNCHANGED <<ledger, csv, cmd, exit, users, idx, ignore, start, fetched,
                   resp, result,
                   exists, work>>

\* write_dead_by_users: f.write(user + '\n') on the line-buffered ledger
LedgerAppend ==
    /\ pc = "returned"
    /\ cmd = "batch"
    /\ ~ignore
    /\ ledger' = ledger \o LedgerLine(users[idx])
    /\ idx' = idx + 1
    /\ pc' = "loop"
    /\ hist' = Append(hist, Event("ledger", users[idx], <<>>))
    /\ UNCHANGED <<report, csv, cmd, exit, users, ignore, auditVars,
                   start, fetched, resp, result,
                   exists, work>>

\* write_dead_by_users with ignore_blacklist: on to the next user
NextUser ==
    /\ pc = "returned"
    /\ cmd = "batch"
    /\ ignore
    /\ idx' = idx + 1
    /\ pc' = "loop"
    /\ UNCHANGED <<report, ledger, csv, cmd, exit, users, ignore, auditVars, start, fetched, hist, resp, result,
                   exists, work>>

\* the process ends: the single audit returned, or the loop over users is
\* over and the ledger handle closed
Finish ==
    /\ \/ pc = "returned" /\ cmd = "single"
       \/ pc = "loop" /\ idx > Len(users)
    /\ pc' = "idle"
    /\ exit' = "ok"
    /\ UNCHANGED <<report, ledger, csv, cmd, users, idx, ignore, auditVars, start, fetched, hist, resp, result,
                   exists, work>>

\* KeyboardInterrupt at any point of an audit process: caught in __main__,
\* which logs and exits
Interrupt ==
    /\ pc \in {"top", "filter", "open", "loop", "crawl", "opened", "write",
              "returned"}
    /\ Unwind("interrupted")

\* __main__ with --sort: the process starts and calls sort_output_file
Sort ==
    /\ pc = "idle"
    /\ cmd \notin {"sort", "convert"}
    /\ cmd' = "sort"
    /\ pc' = "sorting"
    /\ exit' = "running"
    /\ start' = [report |-> report, ledger |-> ledger, users |-> <<>>,
                 files |-> exists]
    /\ fetched' = "none"
    /\ hist' = <<>>
    /\ UNCHANGED <<report, ledger, csv, users, idx, ignore, auditVars, resp,
                   result, exists, work>>

\* sort_output_file up to the sorted list: the report is read
\* (FileNotFoundError when it is not there) and its blocks sorted in
\* memory; an exception ends the process before the file is reopened
SortRead ==
    /\ pc = "sorting"
    /\ IF PATH_OUT \notin exists
       THEN /\ exit' = "FileNotFoundError"
            /\ pc' = "idle"
            /\ work' = <<>>
       ELSE \E r \in {sort_output_file(report)} :
                /\ exit' = IF r.ok THEN exit ELSE r.err
                /\ pc' = IF r.ok THEN "sorted" ELSE "idle"
                /\ work' = r.blocks
    /\ UNCHANGED <<report, ledger, csv, cmd, users, idx, ignore, auditVars,
                   start, fetched, hist, resp, result, exists>>

\* sort_output_file: the report is opened with mode='w', which empties it
SortOpen ==
    /\ pc = "sorted"
    /\ report' = <<>>
    /\ out' = <<>>
    /\ pc' = "rewrite"
    /\ UNCHANGED <<ledger, csv, cmd, exit, users, idx, ignore, first, to,
                   page, pending, dead, seen, wrote, fetches, start, fetched,
                   hist, resp, result, exists, work>>

\* f.writelines: the next block of the sorted list goes to the handle
SortWrite ==
    /\ pc = "rewrite"
    /\ work # <<>>
    /\ out' = out \o Head(work)
    /\ work' = Tail(work)
    /\ UNCHANGED <<report, ledger, csv, cmd, pc, exit, users, idx, ignore,
                   first, to, page, pending, dead, seen, wrote, fetches,
                   start, fetched, hist, resp, result, exists>>

\* the with block ends: the handle is closed and sort_output_file returns
SortClose ==
    /\ pc = "rewrite"
    /\ work = <<>>
    /\ report' = report \o out
    /\ out' = <<>>
    /\ pc' = "idle"
    /\ exit' = "ok"
    /\ UNCHANGED <<ledger, csv, cmd, users, idx, ignore, first, to, page,
                   pending, dead, seen, wrote, fetches, start, fetched, hist,
                   resp, result, exists, work>>

\* writer.writeheader(): the row of the field names
HeaderRow ==
    [author |-> <<"author">>, comment_url |-> <<"comment_url">>,
     host |-> <<"host">>, video_url |-> <<"video_url">>,
     blocked |-> <<"blocked">>]

\* __main__ with --convert: the process starts and calls
\* convert_output_file_to_csv
Convert ==
    /\ pc = "idle"
    /\ cmd \notin {"sort", "convert"}
    /\ cmd' = "convert"
    /\ pc' = "converting"
    /\ exit' = "running"
    /\ start' = [report |-> report, ledger |-> ledger, users |-> <<>>,
                 files |-> exists]
    /\ fetched' = "none"
    /\ hist' = <<>>
    /\ UNCHANGED <<report, ledger, csv, users, idx, ignore, auditVars, resp,
                   result, exists, work>>

\* convert_output_file_to_csv up to full_rows: the report is read
\* (FileNotFoundError when it is not there) and its blocks parsed; an
\* exception ends the process before the .csv file is opened
ConvertRead ==
    /\ pc = "converting"
    /\ IF PATH_OUT \notin exists
       THEN /\ exit' = "FileNotFoundError"
            /\ pc' = "idle"
            /\ work' = <<>>
       ELSE \E r \in {convert_output_file_to_csv(report)} :
                /\ exit' = IF r.ok THEN exit ELSE r.err
                /\ pc' = IF r.ok THEN "converted" ELSE "idle"
                /\ work' = r.rows
    /\ UNCHANGED <<report, ledger, csv, cmd, users, idx, ignore, auditVars,
                   start, fetched, hist, resp, result, exists>>

\* convert_output_file_to_csv: the .csv file is opened with mode='w', which
\* creates or empties it
ConvertOpen ==
    /\ pc = "converted"
    /\ csv' = <<>>
    /\ exists' = exists \cup {PATH_CSV}
    /\ out' = <<>>
    /\ wrote' = 0
    /\ pc' = "export"
    /\ UNCHANGED <<report, ledger, cmd, exit, users, idx, ignore, first, to,
                   page, pending, dead, seen, fetches, start, fetched, hist,
                   resp, result, work>>

\* writer.writeheader()
ConvertHeader ==
    /\ pc = "export"
    /\ wrote = 0
    /\ out' = <<HeaderRow>>
    /\ wrote' = 1
    /\ UNCHANGED <<report, ledger, csv, cmd, pc, exit, users, idx, ignore,
                   first, to, page, pending, dead, seen, fetches, start,
                   fetched, hist, resp, result, exists, work>>

\* writer.writerow(row) for the next row of full_rows
ConvertRow ==
    /\ pc = "export"
    /\ wrote > 0
    /\ work # <<>>
    /\ out' = Append(out, Head(work))
    /\ work' = Tail(work)
    /\ wrote' = wrote + 1
    /\ UNCHANGED <<report, ledger, csv, cmd, pc, exit, users, idx, ignore,
                   first, to, page, pending, dead, seen, fetches, start,
                   fetched, hist, resp, result, exists>>

\* the with block ends: the handle is closed and the function returns
ConvertClose ==
    /\ pc = "export"
    /\ wrote > 0
    /\ work = <<>>
    /\ csv' = csv \o out
    /\ out' = <<>>
    /\ wrote' = 0
    /\ pc' = "idle"
    /\ exit' = "ok"
    /\ UNCHANGED <<report, ledger, cmd, users, idx, ignore, first, to, page,
                   pending, dead, seen, fetches, start, fetched, hist, resp,
                   result, exists, work>>

\* KeyboardInterrupt while the report is sorted or exported: caught in
\* __main__, which logs and exits
InterruptRewrite ==
    /\ pc \in {"sorting", "sorted", "rewrite", "converting", "converted",
              "export"}
    /\ Unwind("interrupted")

Next ==
    \/ exit = "none" /\ \E u \in UserNames : StartSingle(u)
    \/ exit = "none" /\ \E ign \in BOOLEAN : StartBatch(ign)
    \/ \E us \in SeqsUpTo(UserNames, MaxBatch) : TopUsers(us)
    \/ TopUsersRaises
    \/ FilterUsers
    \/ OpenLedger
    \/ \E r \in FirstPageResponses : AuditStart(r)
    \/ \E r \in PageResponses : FetchPage(r)
    \/ \E status \in {"ok", "not found", "private", "removed",
                      "blocked everywhere"} : Classify(status)
    \/ ClassifyRaises
    \/ NoDeadLinks
    \/ OpenReport
    \/ WriteHeader
    \/ WriteEntry
    \/ CloseReport
    \/ LedgerAppend
    \/ NextUser
    \/ Finish
    \/ Interrupt

\* One audit process (a single user or a batch) from start to end.
Spec == Init /\ [][Next]_vars

-----------------------------------------------------------------------------
(* The report: blocks written by audits, then sorted or exported *)

InitReport ==
    /\ Init
    /\ report = <<>>
    /\ ledger = <<>>
    /\ PATH_CHECKED_USERS \notin exists

NextReport ==
    \/ /\ cmd \in {"none", "single"}
       /\ Len(Blocks(report)) < MaxBlocks
       /\ \E u \in UserNames : StartSingle(u)
    \/ \E r \in FirstPageResponses : AuditStart(r)
    \/ \E r \in PageResponses : FetchPage(r)
    \/ \E status \in {"ok", "not found", "private", "removed",
                      "blocked everywhere"} : Classify(status)
    \/ ClassifyRaises
    \/ NoDeadLinks
    \/ OpenReport
    \/ WriteHeader
    \/ WriteEntry
    \/ CloseReport
    \/ Finish
    \/ Interrupt
    \/ Sort
    \/ SortRead
    \/ SortOpen
    \/ SortWrite
    \/ SortClose
    \/ Convert
    \/ ConvertRead
    \/ ConvertOpen
    \/ ConvertHeader
    \/ ConvertRow
    \/ ConvertClose
    \/ InterruptRewrite

\* Audits of single users, one process after the other, that build a
\* report, then one sort or export of it.
SpecReport == InitReport /\ [][NextReport]_vars

-----------------------------------------------------------------------------
(* The classifier on its own *)

\* get_yt_video_status applied to one parsed response
YtCall(r) ==
    /\ resp' = r
    /\ result' = get_yt_video_status(r)
    /\ UNCHANGED <<report, ledger, csv, cmd, pc, exit, users, idx, ignore,
                   auditVars, start, fetched, hist,
                   exists, work>>

NextYt == \E r \in YtResponses : YtCall(r)

SpecYt == Init /\ [][NextYt]_vars

-----------------------------------------------------------------------------
(* What the properties speak of *)

IsPrefix(a, b) == Len(a) <= Len(b) /\ SubSeq(b, 1, Len(a)) = a

\* the users named by the lines of a ledger text
LedgerUsers(text) ==
    LET ls == Lines(text)
    IN  {u \in UserNames : \E i \in 1..Len(ls) : Strip(ls[i]) = <<u>>}

\* the text the process has added to the ledger, and to the report
LedgerGain == SubSeq(ledger, Len(start.ledger) + 1, Len(ledger))

ReportGain == SubSeq(report, Len(start.report) + 1, Len(report))

\* the audits that have returned, in order, each with the entries it found
Returned == SelectSeq(hist, LAMBDA e : e.ev = "returned")

\* the full block of a returned audit: nothing when it found no dead link
BlockOf(e) ==
    IF e.dead = <<>> THEN <<>>
    ELSE Header(e.user, Len(e.dead))
         \o Flatten([i \in 1..Len(e.dead) |-> EntryLine(e.dead[i])])

BlocksOf(es) == Flatten([i \in 1..Len(es) |-> BlockOf(es[i])])

\* a block whose declared count is the number of entry lines under it
WellFormed(b) ==
    /\ CountDigits(b) # NoMatch
    /\ ParseInt(CountDigits(b)) = Len(Split(Strip(b), "\n")) - 1

AllWellFormed(text) ==
    \A i \in 1..Len(Blocks(text)) : WellFormed(Blocks(text)[i])

LedgerChecked == cmd = "batch" /\ ~ignore

-----------------------------------------------------------------------------
(* Properties *)

\* C1: in a batch with the ledger check, in every state (a run cut off by
\* an interrupt or an exception included), the k-th line the run has added
\* to the ledger names the k-th audit that returned, the report holds the
\* full blocks of those audits, and each ledger append directly follows the
\* return of its audit and precedes the start of the next audit.
C1_LedgerFollowsReport ==
    LedgerChecked =>
        LET lines == Lines(LedgerGain)
            ret == Returned
        IN  /\ Len(lines) <= Len(ret)
            /\ \A k \in 1..Len(lines) : lines[k] = LedgerLine(ret[k].user)
            /\ IsPrefix(start.report \o BlocksOf(SubSeq(ret, 1, Len(lines))),
                        report)
            /\ Len(SelectSeq(hist, LAMBDA e : e.ev = "ledger")) = Len(lines)
            /\ \A i \in 1..Len(hist) :
                  /\ hist[i].ev = "ledger" =>
                        /\ i > 1
                        /\ hist[i - 1].ev = "returned"
                        /\ hist[i - 1].user = hist[i].user
                  /\ (hist[i].ev = "audit" /\ i > 1) =>
                        hist[i - 1].ev = "ledger"

\* C1 witness: a batch cut off during the audit of its second user, after
\* the first user's block and ledger line were written.
C1_Witness ==
    /\ LedgerChecked
    /\ pc = "idle"
    /\ exit = "interrupted"
    /\ Len(Lines(LedgerGain)) = 1
    /\ Len(Returned) = 1
    /\ Returned[1].dead # <<>>
    /\ hist[Len(hist)].ev = "audit"

\* C2: when a batch with the ledger check has completed over a list of
\* users none of whom was in the ledger, the report has gained the block of
\* every audit that found a dead link, one per such audit and in order, and
\* nothing for an audit that found none; the ledger names every user of the
\* list.
C2_BlocksAndLedgerAfterBatch ==
    (/\ LedgerChecked
     /\ pc = "idle"
     /\ exit = "ok"
     /\ \A i \in 1..Len(start.users) :
           start.users[i] \notin LedgerUsers(start.ledger))
    => LET ret == Returned
       IN  /\ Len(ret) = Len(start.users)
           /\ \A k \in 1..Len(ret) : ret[k].user = start.users[k]
           /\ ReportGain = BlocksOf(ret)
           /\ Len(Blocks(ReportGain))
                 = Len(SelectSeq(ret, LAMBDA e : e.dead # <<>>))
           /\ \A i \in 1..Len(start.users) :
                 start.users[i] \in LedgerUsers(ledger)

\* C2 witness: a completed batch over two users, the first without dead
\* links, the second with two.
C2_Witness ==
    /\ LedgerChecked
    /\ pc = "idle"
    /\ exit = "ok"
    /\ Len(start.users) = 2
    /\ start.users[1] # start.users[2]
    /\ LedgerUsers(start.ledger) = {}
    /\ Len(Returned) = 2
    /\ Returned[1].dead = <<>>
    /\ Len(Returned[2].dead) = 2
    /\ Len(Blocks(ReportGain)) = 1

\* C3 as stated: while an audit started by a batch with the ledger check is
\* under way, its user is not named by any line of the ledger, the lines
\* this run appended included.
C3_NotInLedgerNow ==
    (LedgerChecked /\ hist # <<>> /\ hist[Len(hist)].ev = "audit")
    => hist[Len(hist)].user \notin LedgerUsers(ledger)

\* C3 amended: every audit a batch with the ledger check starts is of a
\* user no line of the ledger named when the batch started.
C3_NotInLedgerAtStart ==
    LedgerChecked =>
        \A i \in 1..Len(hist) :
            hist[i].ev = "audit" =>
                hist[i].user \notin LedgerUsers(start.ledger)

\* C3 witness: an audit under way in a batch whose list also named a user
\* of the ledger.
C3_Witness ==
    /\ LedgerChecked
    /\ hist # <<>>
    /\ hist[Len(hist)].ev = "audit"
    /\ \E i \in 1..Len(start.users) :
          start.users[i] \in LedgerUsers(start.ledger)

\* C4: after an interrupt has stopped the process, every block of the
\* report has as many entry lines as its header declares, and the ledger
\* ends with a whole line.
C4_NoPartialBlock ==
    (pc = "idle" /\ exit = "interrupted")
    => /\ AllWellFormed(report)
       /\ (ledger = <<>> \/ ledger[Len(ledger)] = "\n")

\* C4 input: an interrupt has stopped an audit between two writes of its
\* block, and the report ends with a header short of entry lines.
C4_Reached ==
    /\ pc = "idle"
    /\ exit = "interrupted"
    /\ ~AllWellFormed(report)

\* C5: when sort_output_file has run on a report with a block whose
\* declared count differs from its number of entry lines, it has failed and
\* the report is as it was.
C5_SortValidates ==
    (cmd = "sort" /\ ~AllWellFormed(start.report))
    => /\ pc \in {"sorting", "idle"}
       /\ exit # "ok"
       /\ report = start.report

\* C5 input: sort_output_file has run on a report holding a block cut
\* short by an interrupt, and has rewritten it without complaint.
C5_Reached ==
    /\ cmd = "sort"
    /\ ~AllWellFormed(start.report)
    /\ pc = "idle"
    /\ exit = "ok"
    /\ report # start.report

\* the declared count of a block
Declared(b) == ParseInt(CountDigits(b))

SameBlocks(bs, rs) ==
    /\ Len(bs) = Len(rs)
    /\ \A i \in 1..Len(bs) :
          Cardinality({k \in 1..Len(bs) : bs[k] = bs[i]})
             = Cardinality({k \in 1..Len(rs) : rs[k] = bs[i]})

Descending(rs) ==
    \A i, j \in 1..Len(rs) : i < j => Declared(rs[i]) >= Declared(rs[j])

\* sort_output_file is at work on, or is done with, a report that was
\* there and held well-formed blocks only
SortedFrom ==
    /\ cmd = "sort"
    /\ PATH_OUT \in start.files
    /\ AllWellFormed(start.report)

SortDone == pc = "idle" /\ exit = "ok"

\* C6 as stated: sort_output_file raises nothing on a report of well-formed
\* blocks, and when it has returned the blocks are in descending order of
\* declared count and the blocks of each count are in the order they had in
\* the input.
C6_StableByCount ==
    SortedFrom =>
        LET bs == Blocks(start.report)
            rs == Blocks(report)
        IN  /\ exit \in {"running", "ok", "interrupted"}
            /\ SortDone =>
               /\ Descending(rs)
               /\ \A i \in 1..Len(bs) :
                   SelectSeq(rs, LAMBDA b : Declared(b) = Declared(bs[i]))
                    = SelectSeq(bs, LAMBDA b : Declared(b) = Declared(bs[i]))

\* C6 amended: sort_output_file raises nothing on a report of well-formed
\* blocks, and when it has returned the report holds the same blocks in
\* descending order of declared count, and blocks of equal count are in
\* ascending order of their text, whatever order they had in the input.
C6_ByCountThenText ==
    SortedFrom =>
        LET bs == Blocks(start.report)
            rs == Blocks(report)
        IN  /\ exit \in {"running", "ok", "interrupted"}
            /\ SortDone =>
               /\ SameBlocks(bs, rs)
               /\ report = Flatten(rs)
               /\ Descending(rs)
               /\ \A i, j \in 1..Len(rs) :
                     (i < j /\ Declared(rs[i]) = Declared(rs[j]))
                     => (rs[i] = rs[j] \/ StrLess(rs[i], rs[j]))

\* C6 witness: two well-formed blocks of equal count, the first later in
\* text order than the second, have been sorted.
C6_Witness ==
    /\ SortedFrom
    /\ Len(Blocks(start.report)) = 2
    /\ Declared(Blocks(start.report)[1]) = Declared(Blocks(start.report)[2])
    /\ StrLess(Blocks(start.report)[2], Blocks(start.report)[1])
    /\ SortDone

RECURSIVE SumDeclared(_)
SumDeclared(bs) ==
    IF bs = <<>> THEN 0 ELSE Declared(Head(bs)) + SumDeclared(Tail(bs))

\* C7: convert_output_file_to_csv on a report made of the complete blocks
\* of two audits, whatever statuses their entries carry, raises nothing,
\* and when it has returned the .csv file holds, after the row of the field
\* names, as many rows as the two headers declare together.
C7_RowsAreSumOfCounts ==
    (/\ cmd = "convert"
     /\ Len(Blocks(start.report)) = 2
     /\ AllWellFormed(start.report))
    => /\ exit \in {"running", "ok", "interrupted"}
       /\ (pc = "idle" /\ exit = "ok")
          => /\ csv # <<>>
             /\ csv[1] = HeaderRow
             /\ Len(csv) - 1 = SumDeclared(Blocks(start.report))

\* C7 input: the conversion of two complete blocks has ended in an
\* exception.
C7_Reached ==
    /\ cmd = "convert"
    /\ Len(Blocks(start.report)) = 2
    /\ AllWellFormed(start.report)
    /\ exit = "AttributeError"

\* C8: for a response with an item, a private video is classified private
\* whatever its upload status and region restriction, and a video that is
\* not private and not processed is classified removed whatever its region
\* restriction.
C8_PrivateThenRemoved ==
    resp.items > 0 =>
        /\ resp.privacy = "private" => result = "private"
        /\ (resp.privacy # "private" /\ resp.upload # "processed")
           => result = "removed"

\* C8 witness: a private video whose block-list names every region.
C8_Witness ==
    /\ resp.items > 0
    /\ resp.privacy = "private"
    /\ resp.details
    /\ resp.region
    /\ resp.blocked = RegionTotal
    /\ result = "private"

Restricted ==
    /\ resp.items > 0
    /\ resp.privacy # "private"
    /\ resp.upload = "processed"
    /\ resp.details
    /\ resp.region
    /\ (resp.allowed # Absent \/ resp.blocked # Absent)

\* C9: for a processed video that is not private and carries a region
\* restriction with an allow-list or a block-list, the status is blocked
\* everywhere exactly when the allow-list is there and empty, or is not
\* there and the block-list has 249 codes; otherwise it is ok.
C9_BlockedEverywhereExactly ==
    Restricted =>
        IF resp.allowed = 0 \/ (resp.allowed = Absent /\ resp.blocked = 249)
        THEN result = "blocked everywhere"
        ELSE result = "ok"

\* C9 witness: a block-list one code short of every region is ok.
C9_Witness ==
    /\ Restricted
    /\ resp.allowed = Absent
    /\ resp.blocked = RegionTotal - 1
    /\ result = "ok"

FirstPageRefused == first.code # 0 /\ (first.code # HttpOk \/ first.login)

\* C10: when the first-page fetch of an audit over the default range ends
\* in a login redirect or a status other than 200, number_of_pages is 0,
\* no further page is fetched, no dead link is found, nothing is written
\* for the report, and the audit returns without a block.
C10_RefusedFirstPage ==
    FirstPageRefused =>
        /\ to = 0
        /\ fetches = 1
        /\ dead = <<>>
        /\ out = <<>>
        /\ pc = "crawl"
        /\ ~ENABLED (\E r \in PageResponses : FetchPage(r))
        /\ ~ENABLED OpenReport
        /\ ENABLED NoDeadLinks

\* C10 witness: a 200 response that is the login page, with a paginator.
C10_Witness ==
    /\ first.code = HttpOk
    /\ first.login
    /\ first.last > 0
    /\ to = 0

\* the classified links whose status is not ok, in the order classified
NotOk == SelectSeq(seen, LAMBDA x : x.status # "ok")

\* the entry lines the open report handle holds after the header
EntryLinesOut ==
    LET ls == Split(Strip(out), "\n")
    IN  SubSeq(ls, 2, Len(ls))

Has(line, lexeme) == \E k \in 1..Len(line) : line[k] = lexeme

\* what an entry line shows between the link of the video and the word on
Detail(line) ==
    LET k == CHOOSE i \in 1..Len(line) :
                 line[i] = ")" /\ \A j \in 1..(i - 1) : line[j] # ")"
        n == CHOOSE i \in 1..Len(line) :
                 line[i] = "on" /\ \A j \in 1..(i - 1) : line[j] # "on"
    IN  SubSeq(line, k + 1, n - 1)

\* C11: during an audit the entries yielded are, in the order of the crawl,
\* exactly the classified links whose status is not ok, each with its movie,
\* host and video id; an entry of a link classified not found carries no
\* detail and every other entry carries its status; the lines written for
\* the report block are those of the entries, in order, with the status in
\* bold brackets on the lines that carry one and on no other, and no line
\* shows the status ok.
C11_DeadAreTheNotOk ==
    pc \in {"crawl", "write"} =>
        /\ Len(dead) = Len(NotOk)
        /\ \A i \in 1..Len(dead) :
              /\ dead[i].movie = NotOk[i].link.movie
              /\ dead[i].host = NotOk[i].link.host
              /\ dead[i].vid = NotOk[i].link.vid
              /\ dead[i].status # "ok"
              /\ NotOk[i].status = "not found" => dead[i].status = None
              /\ NotOk[i].status # "not found"
                 => dead[i].status = NotOk[i].status
        /\ pc = "write" =>
              /\ Len(EntryLinesOut) = wrote
              /\ \A i \in 1..wrote :
                    LET line == EntryLinesOut[i]
                    IN  /\ Has(line, NotOk[i].link.vid)
                        /\ Has(line, NotOk[i].link.host)
                        /\ Has(line, NotOk[i].link.movie)
                        /\ ~Has(line, "ok")
                        /\ IF NotOk[i].status = "not found"
                           THEN Detail(line) = <<" ">>
                           ELSE Detail(line)
                                   = <<" ", "**", "(", NotOk[i].status, ")",
                                       "**", " ">>

\* C11 witness: a crawl that classified one link ok and another private,
\* and has written the line of the private one.
C11_Witness ==
    /\ pc = "write"
    /\ Len(seen) = 2
    /\ seen[1].status = "ok"
    /\ seen[2].status = "private"
    /\ wrote = 1

\* the last thing the run did, as hist has it
LastEvent == hist[Len(hist)]

\* C12: in a batch with the ledger check, an audit in which a fetch failed
\* with a status other than 200 is not stopped by it, and a failed page adds
\* no link; when every fetch of the audit failed (the first one, so that
\* number_of_pages is 0, or every page), no link is examined, the audit
\* returns with no entry and writes no block, the user is appended to the
\* ledger, the batch goes on to the next user, and a later run's
\* filter_by_blacklist drops that user.
C12_FailedFetchIsNoDeadLinks ==
    (LedgerChecked /\ fetched \in {"failed", "mixed"}) =>
        /\ pc \in {"crawl", "write", "returned", "loop"} => exit = "running"
        /\ (pc = "crawl" /\ fetched = "failed") =>
              /\ pending = <<>>
              /\ seen = <<>>
              /\ dead = <<>>
              /\ out = <<>>
              /\ ~ENABLED OpenReport
              /\ page >= to => ENABLED NoDeadLinks
        /\ fetched = "failed" => pc \notin {"opened", "write"}
        /\ pc = "returned" =>
              /\ LastEvent.ev = "returned"
              /\ LastEvent.user = users[idx]
              /\ fetched = "failed" => LastEvent.dead = <<>>
              /\ ReportGain = BlocksOf(Returned)
              /\ ENABLED LedgerAppend
        /\ pc = "loop" =>
              /\ LastEvent.ev = "ledger"
              /\ LastEvent.user = users[idx - 1]
              /\ LastEvent.user \in LedgerUsers(ledger)
              /\ filter_by_blacklist(<<LastEvent.user>>, ledger) = <<>>
              /\ fetched = "failed" =>
                    /\ Returned[Len(Returned)].user = LastEvent.user
                    /\ Returned[Len(Returned)].dead = <<>>
                    /\ ReportGain = BlocksOf(Returned)
              /\ IF idx <= Len(users)
                 THEN ENABLED (\E r \in FirstPageResponses : AuditStart(r))
                 ELSE ENABLED Finish

\* C12 witness: the first user of a batch of two, none of whose fetches
\* succeeded, is in the ledger without a block, and the second is next.
C12_Witness ==
    /\ LedgerChecked
    /\ pc = "loop"
    /\ fetched = "failed"
    /\ idx = 2
    /\ Len(users) = 2
    /\ LastEvent.ev = "ledger"
    /\ LastEvent.user = users[1]
    /\ users[1] \in LedgerUsers(ledger)
    /\ users[1] \notin LedgerUsers(start.ledger)
    /\ ReportGain = <<>>

====
